---- MODULE Spec2Model ----
(***************************************************************************)
(* sm-viewer: the extraction pipeline of the social-media viewer.          *)
(*                                                                         *)
(*   - the /api/extract handler (platform detection, the yt-dlp tier, the  *)
(*     embed fallback) of the server file,                                 *)
(*   - parseYtdlpInfo, the format selection of lib/ytdlp.js,               *)
(*   - extractWithPuppeteer of lib/twitter and lib/instagram: the network  *)
(*     listeners, the in-page DOM pass and the merge of the two,           *)
(*   - getBrowser and the page of each call, for calls that run at the     *)
(*     same time (the shared browser, try / finally, the listeners).       *)
(*                                                                         *)
(* Strings are TLA+ strings; a JavaScript string operation is modelled on  *)
(* the characters (SubSeq, Len, \o), a regular expression by the set of    *)
(* positions at which a match of its prefix can end.  An absent            *)
(* (undefined / null) string property is "", an absent number is 0: the    *)
(* code tests these properties for truthiness only.                        *)
(***************************************************************************)
EXTENDS FiniteSets, Integers, Sequences, TLC

VARIABLES
    pc,             \* handler position: "idle", "primary" (awaiting yt-dlp), "done"
    body,           \* req.body of the request being handled
    platform,       \* the handler's const platform (Null until detected)
    info,           \* JSON.parse(stdout) of the yt-dlp run of this request
    result,         \* the handler's const result (NoResult until yt-dlp resolved)
    responses,      \* the responses sent for this request, in order
    calls,          \* the extractors invoked for this request, in order
    secPc,          \* extractWithPuppeteer position: "idle", "loading", "returned", "thrown"
    secPlatform,    \* which module's extractWithPuppeteer runs: "twitter" / "instagram"
    secReel,        \* isReel(originalUrl) of the attempt
    capturedVideos, \* const capturedVideos = []
    capturedImages, \* const capturedImages = []   (instagram only)
    secDom,         \* what page.evaluate returned (data before the merge)
    secData,        \* data.content.media as returned by extractWithPuppeteer
    browserInstance,\* let browserInstance of lib/twitter and of lib/instagram
    browsers,       \* the browser processes launched so far, in order
    attempts,       \* the running calls of extractWithPuppeteer, one per slot
    exited          \* the process has run its 'exit' handlers

orchVars == <<pc, body, platform, info, result, responses, calls>>
secVars == <<secPc, secPlatform, secReel, capturedVideos, capturedImages, secDom, secData>>
conVars == <<browserInstance, browsers, attempts, exited>>
vars == <<pc, body, platform, info, result, responses, calls,
          secPc, secPlatform, secReel, capturedVideos, capturedImages, secDom, secData,
          browserInstance, browsers, attempts, exited>>

(***************************************************************************)
(* Bounds of the model.                                                    *)
(***************************************************************************)
MaxFormats == 2     \* longest info.formats list tried
MaxCaptured == 2    \* most network events captured during one attempt
MaxAttempts == 2    \* calls of extractWithPuppeteer that run at the same time
MaxLaunches == 2    \* browser processes launched during one run of the server

Null == "<null>"

(***************************************************************************)
(* JavaScript string operations.                                           *)
(***************************************************************************)
CharAt(s, i) == SubSeq(s, i, i)

StartsAt(s, i, lit) ==
    /\ i >= 1
    /\ i + Len(lit) - 1 <= Len(s)
    /\ SubSeq(s, i, i + Len(lit) - 1) = lit

\* String.prototype.includes
includes(s, lit) == \E i \in 1..(Len(s) + 1) : StartsAt(s, i, lit)

\* String.prototype.startsWith
startsWith(s, lit) == StartsAt(s, 1, lit)

\* String.prototype.indexOf, 1-based; 0 when absent
indexOf(s, lit) ==
    IF includes(s, lit)
    THEN CHOOSE i \in 1..(Len(s) + 1) :
            /\ StartsAt(s, i, lit)
            /\ \A j \in 1..(i - 1) : ~StartsAt(s, j, lit)
    ELSE 0

\* String.prototype.replace with a string pattern: the first occurrence only
replace(s, lit, rep) ==
    LET i == indexOf(s, lit)
    IN  IF i = 0 THEN s
        ELSE SubSeq(s, 1, i - 1) \o rep \o SubSeq(s, i + Len(lit), Len(s))

Uppers == "ABCDEFGHIJKLMNOPQRSTUVWXYZ"
Lowers == "abcdefghijklmnopqrstuvwxyz"
DigitChars == {CharAt("0123456789", i) : i \in 1..10}
AlphaChars == {CharAt(Uppers, i) : i \in 1..26} \cup {CharAt(Lowers, i) : i \in 1..26}
\* \w
WordChars == AlphaChars \cup DigitChars \cup {"_"}
\* [A-Za-z0-9_-]
CodeChars == WordChars \cup {"-"}

LowerChar(c) ==
    IF \E i \in 1..26 : CharAt(Uppers, i) = c
    THEN CharAt(Lowers, CHOOSE i \in 1..26 : CharAt(Uppers, i) = c)
    ELSE c

RECURSIVE toLowerCase(_)
toLowerCase(s) ==
    IF s = "" THEN "" ELSE LowerChar(CharAt(s, 1)) \o toLowerCase(Tail(s))

(***************************************************************************)
(* Regular expressions: a set P of positions (the next character to read)  *)
(* is carried through the pattern from left to right.                      *)
(***************************************************************************)
Positions(s) == 1..(Len(s) + 1)

\* a literal
AfterLit(s, P, lit) == {p + Len(lit) : p \in {q \in P : StartsAt(s, q, lit)}}

\* X+ for a character class X
AfterPlus(s, P, class) ==
    {e \in Positions(s) :
        \E p \in P : p < e /\ \A k \in p..(e - 1) : CharAt(s, k) \in class}

\* the longest run of class characters that starts at position i
RECURSIVE RunFrom(_, _, _)
RunFrom(s, i, class) ==
    IF i <= Len(s) /\ CharAt(s, i) \in class
    THEN CharAt(s, i) \o RunFrom(s, i + 1, class)
    ELSE ""

(***************************************************************************)
(* lib/twitter: TWITTER_URL_PATTERNS, extractTweetId, isTwitterUrl.        *)
(* Both patterns carry the i flag, so they run on the lower-cased url; the *)
(* classes \w and \d are closed under case.  The patterns are not          *)
(* anchored: a match may start at any position.                            *)
(***************************************************************************)
TwitterTail(s, P) ==
    LET slash == AfterLit(s, P, "/")
        hash  == slash \cup AfterLit(s, slash, "#!/")
        user  == AfterPlus(s, hash, WordChars)
        st    == AfterLit(s, user, "/status")
        es    == st \cup AfterLit(s, st, "es")
        sl2   == AfterLit(s, es, "/")
    IN  AfterPlus(s, sl2, DigitChars)

TWITTER_URL_PATTERNS(url, k) ==
    LET s == toLowerCase(url)
        P == Positions(s)
    IN  IF k = 1
        THEN TwitterTail(s, AfterLit(s, P, "twitter.com") \cup AfterLit(s, P, "x.com"))
        ELSE \* /(?:mobile\.twitter\.com|mobile\.x\.com)\/(\w+)\/status(?:es)?\/(\d+)/i
             LET slash == AfterLit(s, AfterLit(s, P, "mobile.twitter.com")
                                        \cup AfterLit(s, P, "mobile.x.com"), "/")
                 user  == AfterPlus(s, slash, WordChars)
                 st    == AfterLit(s, user, "/status")
                 es    == st \cup AfterLit(s, st, "es")
                 sl2   == AfterLit(s, es, "/")
             IN  AfterPlus(s, sl2, DigitChars)

\* null, or "match" for the {username, tweetId} object (its fields are only
\* used to build the page address)
extractTweetId(url) ==
    IF \E k \in 1..2 : TWITTER_URL_PATTERNS(url, k) # {} THEN "match" ELSE Null

isTwitterUrl(url) == extractTweetId(url) # Null

(***************************************************************************)
(* lib/instagram: INSTAGRAM_URL_PATTERNS, extractShortcode, isInstagramUrl.*)
(* Each pattern is (?:www\.)?<literal>([A-Za-z0-9_-]+) with the i flag.    *)
(* The optional www. never decides whether or where the literal matches,   *)
(* so the leftmost match is the leftmost occurrence of the literal that is *)
(* followed by a shortcode character, and the group is the longest run.    *)
(***************************************************************************)
INSTAGRAM_URL_PATTERNS ==
    << "instagram.com/p/", "instagram.com/reel/", "instagram.com/reels/",
       "instagram.com/tv/", "instagr.am/p/" >>

\* the positions of url at which lit (matched on the lower-cased text low)
\* and then a shortcode character stand
CodeStarts(url, low, lit) ==
    {i \in Positions(url) :
        /\ StartsAt(low, i, lit)
        /\ i + Len(lit) <= Len(url)
        /\ CharAt(url, i + Len(lit)) \in CodeChars}

Leftmost(S) == CHOOSE i \in S : \A j \in S : i <= j

extractShortcode(url) ==
    LET low == toLowerCase(url)
        hit == {k \in 1..Len(INSTAGRAM_URL_PATTERNS) :
                    CodeStarts(url, low, INSTAGRAM_URL_PATTERNS[k]) # {}}
    IN  IF hit = {} THEN Null
        ELSE LET k   == Leftmost(hit)
                 lit == INSTAGRAM_URL_PATTERNS[k]
             IN  RunFrom(url, Leftmost(CodeStarts(url, low, lit)) + Len(lit), CodeChars)

isInstagramUrl(url) == extractShortcode(url) # Null

\* isReel (lib/instagram)
isReel(url) == includes(url, "/reel/") \/ includes(url, "/reels/")

(***************************************************************************)
(* The server's detectPlatform.                                            *)
(***************************************************************************)
detectPlatform(url) ==
    IF isTwitterUrl(url) THEN "twitter"
    ELSE IF isInstagramUrl(url) THEN "instagram"
    ELSE IF includes(url, "tiktok.com") THEN "tiktok"
    ELSE Null

(***************************************************************************)
(* The server's getEmbedUrl.                                               *)
(* The instagram pattern /(?:p|reel|reels|tv)\/([A-Za-z0-9_-]+)/ carries   *)
(* no flag and no anchor: the match is the leftmost position at which one  *)
(* of the four words, a slash and a shortcode character follow each other. *)
(***************************************************************************)
EmbedWords == <<"p", "reel", "reels", "tv">>

\* the matches: <<position, word>> with the word, a slash and a shortcode
\* character standing at the position; at one position at most one word fits
EmbedHits(url) ==
    {h \in Positions(url) \X (1..Len(EmbedWords)) :
        /\ StartsAt(url, h[1], EmbedWords[h[2]] \o "/")
        /\ h[1] + Len(EmbedWords[h[2]]) + 1 <= Len(url)
        /\ CharAt(url, h[1] + Len(EmbedWords[h[2]]) + 1) \in CodeChars}

\* match[1] of url.match(...) in getEmbedUrl, Null when there is no match
EmbedShortcode(url) ==
    LET first == {h \in EmbedHits(url) : \A g \in EmbedHits(url) : h[1] <= g[1]}
    IN  IF first = {} THEN Null
        ELSE CHOOSE code \in {RunFrom(url, h[1] + Len(EmbedWords[h[2]]) + 1, CodeChars) :
                                 h \in first} : TRUE

\* a builder that knows no embed address for tiktok
getEmbedUrlWithoutTikTok(p, url) ==
    IF p = "twitter" THEN replace(url, "x.com", "twitter.com")
    ELSE IF p = "instagram"
    THEN IF EmbedShortcode(url) # Null
         THEN "https://www.instagram.com/p/" \o EmbedShortcode(url) \o "/embed/"
         ELSE url
    ELSE ""

getEmbedUrl(p, url) ==
    IF p = "twitter" THEN replace(url, "x.com", "twitter.com")
    ELSE IF p = "instagram"
    THEN IF EmbedShortcode(url) # Null
         THEN "https://www.instagram.com/p/" \o EmbedShortcode(url) \o "/embed/"
         ELSE url
    ELSE url

(***************************************************************************)
(* lib/ytdlp.js: detectPlatform (the module's own), parseYtdlpInfo.        *)
(***************************************************************************)
ytdlpDetectPlatform(url) ==
    IF includes(url, "instagram.com") \/ includes(url, "instagr.am") THEN "instagram"
    ELSE IF includes(url, "twitter.com") \/ includes(url, "x.com") THEN "twitter"
    ELSE IF includes(url, "tiktok.com") THEN "tiktok"
    ELSE "unknown"

\* f.width && f.height && f.url, and not audio only
IsVideoFormat(f) ==
    /\ f.width # 0 /\ f.height # 0 /\ f.url # ""
    /\ f.vcodec # "none" /\ f.video_ext # "none"

\* !f.format_id?.includes('dash') && (f.ext === 'mp4' || f.video_ext === 'mp4')
IsProgressive(f) ==
    /\ ~includes(f.format_id, "dash")
    /\ (f.ext = "mp4" \/ f.video_ext = "mp4")

\* Array.prototype.sort((a, b) => (b.height || 0) - (a.height || 0)): the sort
\* is stable, entries of equal height keep their order
RECURSIVE SortByHeight(_)
SortByHeight(fs) ==
    IF fs = <<>> THEN <<>>
    ELSE LET rest == SortByHeight(SubSeq(fs, 1, Len(fs) - 1))
             f    == fs[Len(fs)]
             keep == SelectSeq(rest, LAMBDA g : g.height >= f.height)
             move == SelectSeq(rest, LAMBDA g : g.height < f.height)
         IN  keep \o <<f>> \o move

\* a selection by height alone, without the preference for progressive mp4
SelectVideoUrlByHeightOnly(i) ==
    IF Len(i.formats) > 0
    THEN LET videoFormats == SelectSeq(i.formats, IsVideoFormat)
         IN  IF Len(videoFormats) > 0
             THEN SortByHeight(videoFormats)[1].url
             ELSE i.url
    ELSE i.url

\* let videoUrl of parseYtdlpInfo, lines 38-67
SelectVideoUrl(i) ==
    IF Len(i.formats) > 0
    THEN LET videoFormats       == SelectSeq(i.formats, IsVideoFormat)
             progressiveFormats == SelectSeq(videoFormats, IsProgressive)
             candidates         == IF Len(progressiveFormats) > 0
                                   THEN progressiveFormats ELSE videoFormats
         IN  IF Len(videoFormats) > 0
             THEN SortByHeight(candidates)[1].url
             ELSE i.url
    ELSE i.url

\* a media list that carries the thumbnail as an item of its own
BuildMediaWithThumbnailItem(videoUrl, thumbnailUrl) ==
    (IF videoUrl # ""
     THEN << [type |-> "video", url |-> videoUrl, thumbnail |-> thumbnailUrl] >>
     ELSE << >>)
    \o (IF thumbnailUrl # "" THEN << [type |-> "image", url |-> thumbnailUrl] >> ELSE << >>)

\* const media of parseYtdlpInfo, lines 70-83
BuildMedia(videoUrl, thumbnailUrl) ==
    IF videoUrl # ""
    THEN << [type |-> "video", url |-> videoUrl, thumbnail |-> thumbnailUrl] >>
    ELSE IF thumbnailUrl # ""
    THEN << [type |-> "image", url |-> thumbnailUrl] >>
    ELSE << >>

\* the record parseYtdlpInfo returns; author, text, timestamp and stats are
\* copies of single fields of info and are left out
parseYtdlpInfo(i, originalUrl) ==
    [ platform    |-> ytdlpDetectPlatform(originalUrl),
      content     |-> [media |-> BuildMedia(SelectVideoUrl(i), i.thumbnail)],
      originalUrl |-> originalUrl ]

(***************************************************************************)
(* What yt-dlp can print: the entries of info.formats, info.url and        *)
(* info.thumbnail.                                                         *)
(***************************************************************************)
Format(w, h, u, vc, vext, ext, id) ==
    [width |-> w, height |-> h, url |-> u, vcodec |-> vc, video_ext |-> vext,
     ext |-> ext, format_id |-> id]

Prog720   == Format(1280, 720, "a", "avc1", "mp4", "mp4", "137")
Dash1080  == Format(1920, 1080, "b", "avc1", "mp4", "mp4", "137-dash")
Prog720c  == Format(1280, 720, "c", "avc1", "mp4", "mp4", "22")
Webm1080  == Format(1920, 1080, "w", "vp9", "webm", "webm", "248")
AudioOnly == Format(0, 0, "m", "none", "none", "m4a", "140")
\* the two entries of the specification's example: no width, no vcodec, no ext
Bare720      == Format(0, 720, "a", "", "mp4", "", "137")
Bare1080Dash == Format(0, 1080, "b", "", "mp4", "", "137-dash")

FormatPool == {Prog720, Dash1080, Prog720c, Webm1080, AudioOnly, Bare720, Bare1080Dash}

FormatLists == UNION {[1..n -> FormatPool] : n \in 0..MaxFormats}

Infos == [formats : FormatLists, url : {"", "u"}, thumbnail : {"", "t"}]

NoInfo == [formats |-> <<>>, url |-> "", thumbnail |-> ""]
NoResult == [none |-> TRUE]

(***************************************************************************)
(* Array helpers: Array.prototype.find / findIndex.                        *)
(***************************************************************************)
isVideo(m) == m.type = "video"

\* the indices of the video items of a media array
VideoItems(media) == {k \in 1..Len(media) : isVideo(media[k])}

\* findIndex, 1-based, given the set S of indices that pass the test; 0 when
\* none passes
findIndex(S) == IF S = {} THEN 0 ELSE CHOOSE k \in S : \A j \in S : k <= j

\* find over an array of non-empty strings, given the set S of indices that
\* pass the test; "" stands for undefined
find(seq, S) == IF S = {} THEN "" ELSE seq[findIndex(S)]

\* String.prototype.replace(/lit/g, rep)
RECURSIVE replaceAll(_, _, _)
replaceAll(s, lit, rep) ==
    LET i == indexOf(s, lit)
    IN  IF i = 0 THEN s
        ELSE SubSeq(s, 1, i - 1) \o rep
                \o replaceAll(SubSeq(s, i + Len(lit), Len(s)), lit, rep)

(***************************************************************************)
(* lib/twitter extractWithPuppeteer: the request listener (lines 217-223), *)
(* the in-page function (lines 244-335) and the merge (lines 337-348).     *)
(* The page is abstracted to what the in-page function reads of it: is     *)
(* there an article, the src of its media images, its video and poster.    *)
(***************************************************************************)
TwCaptures(url) == includes(url, ".mp4") \/ includes(url, "video.twimg.com")

\* lines 291-297: the larger version of an image
TwLargeSrc(src) ==
    IF includes(src, "?format=")
    THEN \* src.replace(/&name=\w+/, '&name=large')
         LET at == {i \in Positions(src) :
                       /\ StartsAt(src, i, "&name=")
                       /\ i + 6 <= Len(src)
                       /\ CharAt(src, i + 6) \in WordChars}
         IN  IF at = {} THEN src
             ELSE LET i   == Leftmost(at)
                      run == RunFrom(src, i + 6, WordChars)
                  IN  SubSeq(src, 1, i - 1) \o "&name=large"
                         \o SubSeq(src, i + 6 + Len(run), Len(src))
    ELSE IF ~includes(src, "name=")
    THEN src \o "?format=jpg&name=large"
    ELSE src

\* result.content.media of the in-page function
TwDomPass(dom) ==
    IF ~dom.article THEN << >>
    ELSE [k \in 1..Len(dom.images) |-> [type |-> "image", url |-> TwLargeSrc(dom.images[k])]]
         \o (IF dom.video.present
             THEN << [type |-> "video", url |-> "", thumbnail |-> dom.video.poster] >>
             ELSE << >>)

\* lines 340-342
TwBestVideo(captured) ==
    LET hi  == find(captured, {k \in 1..Len(captured) :
                        includes(captured[k], "720x") \/ includes(captured[k], "1280x")})
        mp4 == find(captured, {k \in 1..Len(captured) : includes(captured[k], ".mp4")})
    IN  IF hi # "" THEN hi ELSE IF mp4 # "" THEN mp4 ELSE captured[1]

\* lines 337-348
TwMerge(media, captured) ==
    IF Len(captured) > 0 /\ VideoItems(media) # {}
    THEN LET bestVideo == TwBestVideo(captured)
             k         == findIndex(VideoItems(media))
         IN  IF bestVideo # "" THEN [media EXCEPT ![k].url = bestVideo] ELSE media
    ELSE media

TwImageSrcs ==
    {"https://pbs.twimg.com/media/A?format=jpg&name=small", "https://pbs.twimg.com/media/B"}

TwDoms ==
    [article : BOOLEAN,
     images  : {<< >>} \cup {<<i>> : i \in TwImageSrcs},
     video   : {[present |-> FALSE, poster |-> ""], [present |-> TRUE, poster |-> ""],
                [present |-> TRUE, poster |-> "t"]}]

TwRequestUrls ==
    {"v1.mp4", "v2.mp4", "https://video.twimg.com/vid/720x1280/hi.mp4",
     "https://video.twimg.com/pl/a.m3u8", "https://abs.twimg.com/app.js"}

(***************************************************************************)
(* lib/instagram extractWithPuppeteer: the response and request listeners  *)
(* (lines 80-122), the in-page function (lines 156-290) and the merge      *)
(* (lines 292-319).  The page is abstracted to what the in-page function   *)
(* reads of it: per script the text its video_url / playback_url and       *)
(* display_url patterns capture, the video element's src and poster, the   *)
(* og:video and og:image meta contents.                                    *)
(***************************************************************************)
IgCapturesVideoResponse(url, contentType) ==
    \/ includes(contentType, "video")
    \/ includes(url, ".mp4")
    \/ includes(url, "scontent") /\ includes(url, "video")

IgCapturesImageResponse(url, contentType) ==
    /\ includes(contentType, "image") \/ includes(url, ".jpg") \/ includes(url, ".webp")
    /\ includes(url, "cdninstagram.com") \/ includes(url, "fbcdn.net")
    /\ ~includes(url, "150x150")
    /\ ~includes(url, "profile")

IgCapturesVideoRequest(url) ==
    \/ includes(url, ".mp4")
    \/ includes(url, "scontent") /\ includes(url, "video")

\* capturedX.includes(url) guards every push
PushNew(seq, url) ==
    IF \E k \in 1..Len(seq) : seq[k] = url THEN seq ELSE Append(seq, url)

\* lines 175, 189: decode the escapes of embedded JSON
IgDecode(s) == replaceAll(replaceAll(s, "\\u0026", "&"), "\\/", "/")

\* lines 165-196: one script of the loop
IgScriptStep(media, script) ==
    LET videoUrl == IgDecode(script.video_url)
        m1 == IF script.video_url # "" /\ ~\E k \in 1..Len(media) : media[k].url = videoUrl
              THEN Append(media, [type |-> "video", url |-> videoUrl])
              ELSE media
    IN  IF Len(m1) = 0 /\ script.display_url # ""
        THEN Append(m1, [type |-> "image", url |-> IgDecode(script.display_url)])
        ELSE m1

RECURSIVE IgScripts(_, _)
IgScripts(media, scripts) ==
    IF scripts = << >> THEN media
    ELSE IgScripts(IgScriptStep(media, Head(scripts)), Tail(scripts))

\* lines 231-253: the video element as a backup
IgVideoElement(media, video) ==
    IF VideoItems(media) = {} /\ video.present
    THEN IF video.src # "" /\ startsWith(video.src, "http")
         THEN Append(media, [type |-> "video", url |-> video.src, thumbnail |-> video.poster])
         ELSE IF video.poster # ""
         THEN Append(media, [type |-> "video", url |-> "", thumbnail |-> video.poster])
         ELSE media
    ELSE media

\* lines 255-273: og:video
IgVideoMeta(media, ogVideo) ==
    IF (~\E k \in VideoItems(media) : media[k].url # "") /\ ogVideo # ""
    THEN IF VideoItems(media) # {}
         THEN [media EXCEPT ![findIndex(VideoItems(media))].url = ogVideo]
         ELSE Append(media, [type |-> "video", url |-> ogVideo])
    ELSE media

\* lines 275-287: og:image
IgImageMeta(media, ogImage) ==
    IF Len(media) = 0 /\ ogImage # ""
    THEN Append(media, [type |-> "image", url |-> ogImage])
    ELSE media

\* result.content.media of the in-page function
IgDomPass(dom) ==
    IgImageMeta(
        IgVideoMeta(IgVideoElement(IgScripts(<< >>, dom.scripts), dom.video), dom.ogVideo),
        dom.ogImage)

\* a merge that overwrites the url of the video item whether it is empty or not
IgFillVideoAlways(media, videos, images, reel) ==
    IF Len(videos) > 0
    THEN LET k == findIndex(VideoItems(media))
         IN  IF k # 0
             THEN [media EXCEPT ![k].url = videos[Len(videos)]]
             ELSE IF reel
             THEN << [type |-> "video", url |-> videos[Len(videos)],
                      thumbnail |-> IF Len(images) > 0 THEN images[1] ELSE ""] >> \o media
             ELSE media
    ELSE media

\* lines 292-306
IgFillVideo(media, videos, images, reel) ==
    IF Len(videos) > 0
    THEN LET k == findIndex(VideoItems(media))
         IN  IF k # 0 /\ media[k].url = ""
             THEN [media EXCEPT ![k].url = videos[Len(videos)]]
             ELSE IF k = 0 /\ reel
             THEN << [type |-> "video", url |-> videos[Len(videos)],
                      thumbnail |-> IF Len(images) > 0 THEN images[1] ELSE ""] >> \o media
             ELSE media
    ELSE media

\* a merge that falls back to the first captured image
IgFillImageFirst(media, images) ==
    IF Len(media) = 0 /\ Len(images) > 0
    THEN LET hi == find(images, {k \in 1..Len(images) :
                           includes(images[k], "1080") \/ includes(images[k], "1440")})
             bestImage == IF hi # "" THEN hi ELSE images[1]
         IN  Append(media, [type |-> "image", url |-> bestImage])
    ELSE media

\* lines 308-319
IgFillImage(media, images) ==
    IF Len(media) = 0 /\ Len(images) > 0
    THEN LET hi == find(images, {k \in 1..Len(images) :
                           includes(images[k], "1080") \/ includes(images[k], "1440")})
             bestImage == IF hi # "" THEN hi ELSE images[Len(images)]
         IN  Append(media, [type |-> "image", url |-> bestImage])
    ELSE media

IgMerge(media, videos, images, reel) ==
    IgFillImage(IgFillVideo(media, videos, images, reel), images)

IgScriptPool ==
    {[video_url |-> "https:\\/\\/cdn\\/s.mp4?a=1\\u0026b=2", display_url |-> ""],
     [video_url |-> "", display_url |-> "https://cdn/d.jpg"]}

IgDoms ==
    [scripts : {<< >>} \cup {<<sc>> : sc \in IgScriptPool},
     video   : {[present |-> FALSE, src |-> "", poster |-> ""],
                [present |-> TRUE, src |-> "https://cdn/el.mp4", poster |-> "t"],
                [present |-> TRUE, src |-> "blob:x", poster |-> "t"],
                [present |-> TRUE, src |-> "", poster |-> ""]},
     ogVideo : {"", "https://cdn/og.mp4"},
     ogImage : {"", "https://cdn/og.jpg"}]

IgUrls ==
    {"v1.mp4", "v2.mp4",
     "https://scontent.cdninstagram.com/i1.jpg",
     "https://scontent.cdninstagram.com/i3.jpg",
     "https://scontent.cdninstagram.com/p1080x1080/i2.jpg",
     "https://scontent.cdninstagram.com/s150x150/profile.jpg",
     "https://scontent.cdninstagram.com/video/3"}

IgContentTypes == {"", "video/mp4", "image/jpeg"}

(***************************************************************************)
(* The request body.  express.json() hands the handler whatever JSON the   *)
(* client sent, so url is absent, a string, a number or an array; an array *)
(* is modelled with one string element.  s is the text String(value)       *)
(* gives: the string itself, the number's digits, the array's element.     *)
(***************************************************************************)
JUndefined == [t |-> "undefined", s |-> ""]
JString(s) == [t |-> "string", s |-> s]
JNumber(s) == [t |-> "number", s |-> s]
JArray(s)  == [t |-> "array", s |-> s]

\* !url is false
Truthy(v) ==
    \/ v.t = "array"
    \/ v.t = "string" /\ v.s # ""
    \/ v.t = "number" /\ v.s # "0"

StringOf(v) == v.s

TweetUrl   == "https://x.com/user/status/123"
TweetUrl2  == "https://twitter.com/user/status/123"
PostUrl    == "https://www.instagram.com/p/Ab_1/"
ReelUrl    == "https://www.instagram.com/reel/Xy-2/"
ProfileUrl == "https://www.instagram.com/someone/"
TikTokUrl  == "https://www.tiktok.com/@u/video/7"
OtherUrl   == "https://example.com/post/1"
\* a tweet link carried as a query parameter of another site's address
EmbeddedTweetUrl == "https://example.com/?u=https://x.com/user/status/123"
\* a host that ends in the letters x.com
SuffixHostUrl    == "https://netflix.com/a/status/1"
\* host names are case-insensitive: the same tweet with the host in capitals
UpperHostUrl     == "https://X.com/user/status/123"
\* tweet links whose query names another site
TweetRefXUrl     == "https://twitter.com/user/status/123?ref=x.com"
TweetRefIgUrl    == "https://x.com/user/status/123?ref=instagram.com"

UrlValues ==
    {JUndefined, JString(""), JString("not a url"), JString("x.com/user/status/123"),
     JNumber("123"), JArray(TweetUrl), JArray("nothing")}
    \cup {JString(u) : u \in {TweetUrl, TweetUrl2, PostUrl, ReelUrl, ProfileUrl,
                              TikTokUrl, OtherUrl, EmbeddedTweetUrl, SuffixHostUrl,
                              UpperHostUrl, TweetRefXUrl, TweetRefIgUrl}}

Bodies == [url : UrlValues]

(***************************************************************************)
(* new URL(url), lines 40-48: does the text parse as an absolute URL?      *)
(* Modelled: the scheme (a letter, then letters, digits, +, -, .) and its  *)
(* colon must be there, and a special scheme needs a non-empty host.       *)
(* Not modelled: the host's forbidden code points, the trimming of spaces. *)
(***************************************************************************)
SchemeChars == AlphaChars \cup DigitChars \cup {"+", "-", "."}
SpecialSchemes == {"http", "https", "ftp", "ws", "wss"}

RECURSIVE SkipSlashes(_)
SkipSlashes(s) ==
    IF s # "" /\ CharAt(s, 1) \in {"/", "\\"} THEN SkipSlashes(Tail(s)) ELSE s

UrlParses(s) ==
    \E i \in 2..Len(s) :
        /\ CharAt(s, i) = ":"
        /\ CharAt(s, 1) \in AlphaChars
        /\ \A k \in 2..(i - 1) : CharAt(s, k) \in SchemeChars
        /\ toLowerCase(SubSeq(s, 1, i - 1)) \in SpecialSchemes
              => LET rest == SkipSlashes(SubSeq(s, i + 1, Len(s)))
                 IN  rest # "" /\ CharAt(rest, 1) \notin {"?", "#", ":"}

(***************************************************************************)
(* The responses of app.post('/api/extract').                              *)
(***************************************************************************)
Response(status, json) == [status |-> status, json |-> json]

UrlRequired ==
    Response(400, [error |-> "URL is required",
                   message |-> "Please provide a social media URL to view"])
InvalidUrl ==
    Response(400, [error |-> "Invalid URL",
                   message |-> "The provided URL is not valid"])
UnsupportedPlatform ==
    Response(400, [error |-> "Unsupported platform",
                   message |-> "Currently only Twitter/X, Instagram, and TikTok links are supported"])
\* the outer catch, lines 86-93
ExtractionFailed ==
    Response(500, [error |-> "Extraction failed",
                   message |-> "Failed to extract content from the URL"])

\* lines 79-84
EmbedFallback(p, url) ==
    Response(200, [platform |-> p, embedMode |-> TRUE, originalUrl |-> url,
                   embedUrl |-> getEmbedUrl(p, url)])

\* a check that takes any media for success
hasVideoAnyMedia(r) == Len(r.content.media) > 0

\* lines 65-68: result && result.content?.media?.length > 0 && hasVideo
hasVideo(r) ==
    /\ Len(r.content.media) > 0
    /\ \E k \in 1..Len(r.content.media) :
          r.content.media[k].type = "video" /\ r.content.media[k].url # ""

(***************************************************************************)
(* The state shared by the calls of extractWithPuppeteer that run at the   *)
(* same time: each module's browserInstance, the launched browsers, and    *)
(* per call its position and its locals (browser, page, capturedVideos,    *)
(* capturedImages, data).                                                  *)
(*   pc: "idle", "launching" (awaiting puppeteer.launch), "opening"        *)
(*       (awaiting browser.newPage), "setup" (in the try, awaiting         *)
(*       setRequestInterception), "loading" (listeners installed, the page *)
(*       loads and settles), "closing" (in the finally, awaiting           *)
(*       page.close), "returned", "thrown".                                *)
(*   observed: the urls of the network events of the call's own page.      *)
(***************************************************************************)
Modules == {"twitter", "instagram"}
Slots == 1..MaxAttempts

\* browserInstance = null is 0; a launched browser is its index in browsers
NoAttempt ==
    [pc |-> "idle", module |-> "twitter", reel |-> FALSE, browser |-> 0,
     page |-> "none", closes |-> 0, exit |-> "",
     videos |-> << >>, images |-> << >>, observed |-> {},
     dom |-> << >>, data |-> << >>]

\* browserInstance.isConnected()
isConnected(b) == browsers[b].connected

(***************************************************************************)
(* The handler, lines 28-94.  It runs without interruption up to its one   *)
(* await (extractWithYtdlp), and again from there to its end.              *)
(***************************************************************************)
Init ==
    /\ pc = "idle"
    /\ body = [url |-> JUndefined]
    /\ platform = Null
    /\ info = NoInfo
    /\ result = NoResult
    /\ responses = <<>>
    /\ calls = <<>>
    /\ secPc = "idle"
    /\ secPlatform = "twitter"
    /\ secReel = FALSE
    /\ capturedVideos = <<>>
    /\ capturedImages = <<>>
    /\ secDom = <<>>
    /\ secData = <<>>
    /\ browserInstance = [m \in Modules |-> 0]
    /\ browsers = << >>
    /\ attempts = [a \in Slots |-> NoAttempt]
    /\ exited = FALSE

\* a validation that leaves the platform check out
RejectionWithoutPlatformCheck(b) ==
    IF ~Truthy(b.url) THEN <<UrlRequired>>
    ELSE IF ~UrlParses(StringOf(b.url)) THEN <<InvalidUrl>>
    ELSE IF b.url.t # "string" THEN <<ExtractionFailed>>
    ELSE << >>

\* lines 30-57: the response that ends the request before any extraction,
\* as a list; empty when the request goes on to line 59
Rejection(b) ==
    IF ~Truthy(b.url) THEN <<UrlRequired>>
    ELSE IF ~UrlParses(StringOf(b.url)) THEN <<InvalidUrl>>
    ELSE IF b.url.t # "string"
    THEN \* detectPlatform calls url.match, which only a string has: the
         \* TypeError of extractTweetId reaches the outer catch of line 86
         <<ExtractionFailed>>
    ELSE IF detectPlatform(b.url.s) = Null THEN <<UnsupportedPlatform>>
    ELSE << >>

\* lines 30-62: a request arrives; validation, detection, the yt-dlp call
Request(b) ==
    /\ pc = "idle"
    /\ body' = b
    /\ info' = NoInfo
    /\ result' = NoResult
    /\ IF Rejection(b) # << >>
       THEN /\ responses' = Rejection(b)
            /\ pc' = "done"
            /\ UNCHANGED <<platform, calls>>
       ELSE /\ platform' = detectPlatform(b.url.s)
            /\ calls' = Append(calls, "extractWithYtdlp")
            /\ pc' = "primary"
            /\ UNCHANGED responses
    /\ UNCHANGED <<secVars, conVars>>

\* a handler whose line 70 lacks its return: it goes on to line 79
YtdlpResolvesFallsThrough(i) ==
    /\ pc = "primary"
    /\ info' = i
    /\ result' = parseYtdlpInfo(i, body.url.s)
    /\ responses' =
          IF hasVideo(result')
          THEN responses \o <<Response(200, result'), EmbedFallback(platform, body.url.s)>>
          ELSE Append(responses, EmbedFallback(platform, body.url.s))
    /\ pc' = "done"
    /\ UNCHANGED <<body, platform, calls, secVars, conVars>>

\* lines 65-84 after extractWithYtdlp resolved with parseYtdlpInfo(i, url)
YtdlpResolves(i) ==
    /\ pc = "primary"
    /\ info' = i
    /\ result' = parseYtdlpInfo(i, body.url.s)
    /\ responses' =
          IF hasVideo(result')
          THEN Append(responses, Response(200, result'))
          ELSE Append(responses, EmbedFallback(platform, body.url.s))
    /\ pc' = "done"
    /\ UNCHANGED <<body, platform, calls, secVars, conVars>>

\* lines 73-84 after extractWithYtdlp threw: yt-dlp exited non-zero, ran into
\* its 60 s timeout, or printed what JSON.parse rejects
YtdlpRejects ==
    /\ pc = "primary"
    /\ responses' = Append(responses, EmbedFallback(platform, body.url.s))
    /\ pc' = "done"
    /\ UNCHANGED <<body, platform, info, result, calls, secVars, conVars>>

\* the handler has returned; the next request starts from nothing
NextRequest ==
    /\ pc = "done"
    /\ pc' = "idle"
    /\ body' = [url |-> JUndefined]
    /\ platform' = Null
    /\ info' = NoInfo
    /\ result' = NoResult
    /\ responses' = <<>>
    /\ calls' = <<>>
    /\ UNCHANGED <<secVars, conVars>>

Next ==
    \/ \E b \in Bodies : Request(b)
    \/ \E i \in Infos : YtdlpResolves(i)
    \/ YtdlpRejects
    \/ NextRequest

Spec == Init /\ [][Next]_vars

\* execAsync is given timeout: 60000 (lib/ytdlp.js line 20): a yt-dlp run that
\* does not end by itself is ended with an error, so the await does not last
FairSpec == Spec /\ WF_vars(YtdlpRejects)

(***************************************************************************)
(* One attempt of a Secondary Extractor: extractTwitterContent /           *)
(* extractInstagramContent and the extractWithPuppeteer each calls.        *)
(* Network events arrive while the page is loading and settling; the       *)
(* merge runs in the same turn as the return of page.evaluate.             *)
(***************************************************************************)
SecUrls == {TweetUrl, PostUrl, ReelUrl}

\* extractTwitterContent lines 359-366 / extractInstagramContent lines 330-337,
\* up to the listeners being installed
SecStart(url) ==
    /\ secPc = "idle"
    /\ extractTweetId(url) # Null \/ extractShortcode(url) # Null
    /\ secPlatform' = IF extractTweetId(url) # Null THEN "twitter" ELSE "instagram"
    /\ secReel' = (extractTweetId(url) = Null /\ isReel(url))
    /\ capturedVideos' = << >>
    /\ capturedImages' = << >>
    /\ secDom' = << >>
    /\ secData' = << >>
    /\ secPc' = "loading"
    /\ UNCHANGED <<orchVars, conVars>>

\* lib/twitter page.on('request')
TwOnRequest(url) ==
    /\ secPc = "loading" /\ secPlatform = "twitter"
    /\ Len(capturedVideos) < MaxCaptured
    /\ capturedVideos' = IF TwCaptures(url) THEN Append(capturedVideos, url)
                         ELSE capturedVideos
    /\ UNCHANGED <<orchVars, conVars, secPc, secPlatform, secReel, capturedImages, secDom, secData>>

\* lib/instagram page.on('response')
IgOnResponse(url, contentType) ==
    /\ secPc = "loading" /\ secPlatform = "instagram"
    /\ Len(capturedVideos) + Len(capturedImages) < MaxCaptured
    /\ capturedVideos' = IF IgCapturesVideoResponse(url, contentType)
                         THEN PushNew(capturedVideos, url) ELSE capturedVideos
    /\ capturedImages' = IF IgCapturesImageResponse(url, contentType)
                         THEN PushNew(capturedImages, url) ELSE capturedImages
    /\ Len(capturedVideos') + Len(capturedImages') <= MaxCaptured
    /\ UNCHANGED <<orchVars, conVars, secPc, secPlatform, secReel, secDom, secData>>

\* lib/instagram page.on('request')
IgOnRequest(url) ==
    /\ secPc = "loading" /\ secPlatform = "instagram"
    /\ Len(capturedVideos) + Len(capturedImages) < MaxCaptured
    /\ capturedVideos' = IF IgCapturesVideoRequest(url)
                         THEN PushNew(capturedVideos, url) ELSE capturedVideos
    /\ UNCHANGED <<orchVars, conVars, secPc, secPlatform, secReel, capturedImages, secDom, secData>>

\* lib/twitter lines 244-350: page.evaluate returns, the merge, return data
TwEvaluate(dom) ==
    /\ secPc = "loading" /\ secPlatform = "twitter"
    /\ secDom' = TwDomPass(dom)
    /\ secData' = TwMerge(secDom', capturedVideos)
    /\ secPc' = "returned"
    /\ UNCHANGED <<orchVars, conVars, secPlatform, secReel, capturedVideos, capturedImages>>

\* lib/instagram lines 156-321
IgEvaluate(dom) ==
    /\ secPc = "loading" /\ secPlatform = "instagram"
    /\ secDom' = IgDomPass(dom)
    /\ secData' = IgMerge(secDom', capturedVideos, capturedImages, secReel)
    /\ secPc' = "returned"
    /\ UNCHANGED <<orchVars, conVars, secPlatform, secReel, capturedVideos, capturedImages>>

\* page.goto ran into its 30 s timeout, or another awaited page call threw
SecThrows ==
    /\ secPc = "loading"
    /\ secPc' = "thrown"
    /\ UNCHANGED <<orchVars, conVars, secPlatform, secReel, capturedVideos, capturedImages,
                   secDom, secData>>

\* the attempt is over; its arrays and its data go with it
SecEnds ==
    /\ secPc \in {"returned", "thrown"}
    /\ secPc' = "idle"
    /\ capturedVideos' = << >>
    /\ capturedImages' = << >>
    /\ secDom' = << >>
    /\ secData' = << >>
    /\ UNCHANGED <<orchVars, conVars, secPlatform, secReel>>

NextSecondary ==
    \/ \E u \in SecUrls : SecStart(u)
    \/ \E u \in TwRequestUrls : TwOnRequest(u)
    \/ \E u \in IgUrls, ct \in IgContentTypes : IgOnResponse(u, ct)
    \/ \E u \in IgUrls : IgOnRequest(u)
    \/ \E d \in TwDoms : TwEvaluate(d)
    \/ \E d \in IgDoms : IgEvaluate(d)
    \/ SecThrows
    \/ SecEnds

SpecSecondary == Init /\ [][NextSecondary]_vars

(***************************************************************************)
(* Calls of extractWithPuppeteer that run at the same time.  Node runs one *)
(* callback at a time: a step is the code between two awaits.              *)
(***************************************************************************)
\* the network events of the pages and what page.evaluate finds on them
ConUrls == {"v1.mp4", "//fbcdn.net/i1.jpg"}
ConContentTypes == {"image/jpeg"}
ConTwDoms == {[article |-> TRUE, images |-> << >>,
               video |-> [present |-> TRUE, poster |-> "t"]]}
ConIgDoms == {[scripts |-> << >>, video |-> [present |-> FALSE, src |-> "", poster |-> ""],
               ogVideo |-> "", ogImage |-> ""]}

\* calls of puppeteer.launch that have not settled yet
Launching == {a \in Slots : attempts[a].pc = "launching"}

\* extractWithPuppeteer of module mod is called (reel: isReel(originalUrl) of
\* lib/instagram) and calls getBrowser (lines 164-166 / 23-25): the test of
\* browserInstance, and puppeteer.launch if it fails
ConStart(a, mod, reel) ==
    LET b     == browserInstance[mod]
        fresh == [NoAttempt EXCEPT !.module = mod, !.reel = reel]
    IN  /\ ~exited
        /\ attempts[a].pc \in {"idle", "returned", "thrown"}
        /\ mod = "twitter" => ~reel
        /\ IF b = 0 \/ ~isConnected(b)
           THEN /\ Len(browsers) + Cardinality(Launching) < MaxLaunches
                /\ attempts' = [attempts EXCEPT ![a] = [fresh EXCEPT !.pc = "launching"]]
           ELSE attempts' = [attempts EXCEPT ![a] =
                                [fresh EXCEPT !.pc = "opening", !.browser = b]]
        /\ UNCHANGED <<orchVars, secVars, browserInstance, browsers, exited>>

\* puppeteer.launch resolves: browserInstance = the new browser (lines 166 /
\* 25), return browserInstance, browser.newPage() is called
LaunchResolves(a) ==
    /\ ~exited
    /\ attempts[a].pc = "launching"
    /\ browsers' = Append(browsers, [connected |-> TRUE, closed |-> FALSE])
    /\ browserInstance' = [browserInstance EXCEPT ![attempts[a].module] = Len(browsers) + 1]
    /\ attempts' = [attempts EXCEPT ![a].pc = "opening", ![a].browser = Len(browsers) + 1]
    /\ UNCHANGED <<orchVars, secVars, exited>>

\* puppeteer.launch rejects: the call throws before it has a page
LaunchRejects(a) ==
    /\ ~exited
    /\ attempts[a].pc = "launching"
    /\ attempts' = [attempts EXCEPT ![a] = [NoAttempt EXCEPT !.pc = "thrown"]]
    /\ UNCHANGED <<orchVars, secVars, browserInstance, browsers, exited>>

\* browser.newPage() resolves (lines 209 / 72); the try block is entered
PageOpens(a) ==
    /\ ~exited
    /\ attempts[a].pc = "opening"
    /\ isConnected(attempts[a].browser)
    /\ attempts' = [attempts EXCEPT ![a].pc = "setup", ![a].page = "open"]
    /\ UNCHANGED <<orchVars, secVars, browserInstance, browsers, exited>>

\* browser.newPage() rejects: the call throws before the try block
PageFails(a) ==
    /\ ~exited
    /\ attempts[a].pc = "opening"
    /\ attempts' = [attempts EXCEPT ![a] = [NoAttempt EXCEPT !.pc = "thrown"]]
    /\ UNCHANGED <<orchVars, secVars, browserInstance, browsers, exited>>

\* setRequestInterception resolved, page.on('request', ...) ran (lines
\* 216-223 / 104-122); page.goto is called
ListenersInstalled(a) ==
    /\ ~exited
    /\ attempts[a].pc = "setup"
    /\ isConnected(attempts[a].browser)
    /\ attempts' = [attempts EXCEPT ![a].pc = "loading"]
    /\ UNCHANGED <<orchVars, secVars, browserInstance, browsers, exited>>

\* the page of call a is loading and settling, its browser is alive
Loading(a, mod) ==
    /\ ~exited
    /\ attempts[a].pc = "loading"
    /\ attempts[a].module = mod
    /\ isConnected(attempts[a].browser)

\* a listener that pushes to one array kept by the module for all its calls
ConTwOnRequestShared(a, url) ==
    /\ Loading(a, "twitter")
    /\ Len(attempts[a].videos) < MaxCaptured
    /\ attempts' = [c \in Slots |->
          IF c = a
          THEN [attempts[c] EXCEPT
                  !.observed = @ \cup {url},
                  !.videos = IF TwCaptures(url) THEN Append(@, url) ELSE @]
          ELSE IF attempts[c].pc = "loading" /\ attempts[c].module = "twitter"
                  /\ Len(attempts[c].videos) < MaxCaptured
          THEN [attempts[c] EXCEPT
                  !.videos = IF TwCaptures(url) THEN Append(@, url) ELSE @]
          ELSE attempts[c]]
    /\ UNCHANGED <<orchVars, secVars, browserInstance, browsers, exited>>

\* lib/twitter page.on('request') of call a: the page of the call emits a
\* request, the listener pushes to the capturedVideos of that call
ConTwOnRequest(a, url) ==
    /\ Loading(a, "twitter")
    /\ Len(attempts[a].videos) < MaxCaptured
    /\ attempts' = [attempts EXCEPT
          ![a].observed = @ \cup {url},
          ![a].videos = IF TwCaptures(url) THEN Append(@, url) ELSE @]
    /\ UNCHANGED <<orchVars, secVars, browserInstance, browsers, exited>>

\* lib/instagram page.on('response') of call a
ConIgOnResponse(a, url, contentType) ==
    /\ Loading(a, "instagram")
    /\ Len(attempts[a].videos) + Len(attempts[a].images) < MaxCaptured
    /\ attempts' = [attempts EXCEPT
          ![a].observed = @ \cup {url},
          ![a].videos = IF IgCapturesVideoResponse(url, contentType)
                        THEN PushNew(@, url) ELSE @,
          ![a].images = IF IgCapturesImageResponse(url, contentType)
                        THEN PushNew(@, url) ELSE @]
    /\ Len(attempts'[a].videos) + Len(attempts'[a].images) <= MaxCaptured
    /\ UNCHANGED <<orchVars, secVars, browserInstance, browsers, exited>>

\* lib/instagram page.on('request') of call a
ConIgOnRequest(a, url) ==
    /\ Loading(a, "instagram")
    /\ Len(attempts[a].videos) + Len(attempts[a].images) < MaxCaptured
    /\ attempts' = [attempts EXCEPT
          ![a].observed = @ \cup {url},
          ![a].videos = IF IgCapturesVideoRequest(url) THEN PushNew(@, url) ELSE @]
    /\ UNCHANGED <<orchVars, secVars, browserInstance, browsers, exited>>

\* page.evaluate resolves, the merge, return data (lines 244-350 / 156-321);
\* the finally block calls page.close()
ConEvaluate(a, dom) ==
    /\ \/ Loading(a, "twitter") /\ dom \in ConTwDoms
       \/ Loading(a, "instagram") /\ dom \in ConIgDoms
    /\ LET at    == attempts[a]
           media == IF at.module = "twitter" THEN TwDomPass(dom) ELSE IgDomPass(dom)
           data  == IF at.module = "twitter" THEN TwMerge(media, at.videos)
                    ELSE IgMerge(media, at.videos, at.images, at.reel)
       IN  attempts' = [attempts EXCEPT ![a] =
              [at EXCEPT !.dom = media, !.data = data, !.pc = "closing",
                         !.exit = "return", !.closes = @ + 1]]
    /\ UNCHANGED <<orchVars, secVars, browserInstance, browsers, exited>>

\* a try block without its finally: a throw leaves the page open
ConThrowsWithoutClose(a) ==
    /\ ~exited
    /\ attempts[a].pc \in {"setup", "loading"}
    /\ attempts' = [attempts EXCEPT ![a].pc = "thrown", ![a].exit = "throw"]
    /\ UNCHANGED <<orchVars, secVars, browserInstance, browsers, exited>>

\* an awaited call of the try block rejects: setRequestInterception or
\* setUserAgent (listener setup), page.goto (its 30 s timeout), page.evaluate
\* (an exception of the in-page function); the finally block calls page.close()
ConThrows(a) ==
    /\ ~exited
    /\ attempts[a].pc \in {"setup", "loading"}
    /\ attempts' = [attempts EXCEPT ![a].pc = "closing", ![a].exit = "throw",
                                    ![a].closes = @ + 1]
    /\ UNCHANGED <<orchVars, secVars, browserInstance, browsers, exited>>

\* await page.close() settles (lines 351-353 / 322-324): the call returns
\* data or rethrows; its locals (browser, the arrays) go with it, what is
\* kept is what became of its page.  page.close() itself rejects only when
\* the browser is gone, and then the call throws.
PageClosed(a) ==
    /\ ~exited
    /\ attempts[a].pc = "closing"
    /\ \E outcome \in {"returned", "thrown"} :
          /\ outcome = "returned" => attempts[a].exit = "return"
          /\ outcome = "thrown" =>
                 attempts[a].exit = "throw" \/ ~isConnected(attempts[a].browser)
          /\ attempts' = [attempts EXCEPT ![a] =
                [NoAttempt EXCEPT
                    !.pc = outcome, !.page = "closed", !.closes = attempts[a].closes,
                    !.exit = attempts[a].exit,
                    !.data = IF outcome = "returned" THEN attempts[a].data ELSE << >>]]
    /\ UNCHANGED <<orchVars, secVars, browserInstance, browsers, exited>>

\* a browser process crashes or is killed: isConnected() is false from now on
BrowserDisconnects(b) ==
    /\ ~exited
    /\ b \in 1..Len(browsers)
    /\ isConnected(b)
    /\ browsers' = [browsers EXCEPT ![b].connected = FALSE]
    /\ UNCHANGED <<orchVars, secVars, browserInstance, attempts, exited>>

\* process.on('exit') of both modules (lines 385-389 / 355-359): each closes
\* its browserInstance
ProcessExit ==
    /\ ~exited
    /\ exited' = TRUE
    /\ browsers' = [b \in 1..Len(browsers) |->
          IF \E m \in Modules : browserInstance[m] = b
          THEN [connected |-> FALSE, closed |-> TRUE]
          ELSE browsers[b]]
    /\ UNCHANGED <<orchVars, secVars, browserInstance, attempts>>

\* the browser and the pages: getBrowser, newPage, the try / finally
NextBrowser ==
    \/ \E a \in Slots, m \in Modules : ConStart(a, m, FALSE)
    \/ \E a \in Slots : LaunchResolves(a)
    \/ \E a \in Slots : LaunchRejects(a)
    \/ \E a \in Slots : PageOpens(a)
    \/ \E a \in Slots : PageFails(a)
    \/ \E a \in Slots : ListenersInstalled(a)
    \/ \E a \in Slots, d \in ConTwDoms \cup ConIgDoms : ConEvaluate(a, d)
    \/ \E a \in Slots : ConThrows(a)
    \/ \E a \in Slots : PageClosed(a)
    \/ \E b \in 1..MaxLaunches : BrowserDisconnects(b)
    \/ ProcessExit

SpecBrowser == Init /\ [][NextBrowser]_vars

\* the pages and their network events, on browsers that stay alive and
\* pages that load: every instagram address is a reel
NextPages ==
    \/ \E a \in Slots, m \in Modules : ConStart(a, m, m = "instagram")
    \/ \E a \in Slots : LaunchResolves(a)
    \/ \E a \in Slots : PageOpens(a)
    \/ \E a \in Slots : ListenersInstalled(a)
    \/ \E a \in Slots, u \in ConUrls : ConTwOnRequest(a, u)
    \/ \E a \in Slots, u \in ConUrls, ct \in ConContentTypes : ConIgOnResponse(a, u, ct)
    \/ \E a \in Slots, u \in ConUrls : ConIgOnRequest(a, u)
    \/ \E a \in Slots, d \in ConTwDoms \cup ConIgDoms : ConEvaluate(a, d)
    \/ \E a \in Slots : PageClosed(a)

SpecPages == Init /\ [][NextPages]_vars

(***************************************************************************)
(* Properties of the handler (specification Spec / FairSpec).              *)
(***************************************************************************)
IsEmbedRecord(r) ==
    r.status = 200 /\ "embedMode" \in DOMAIN r.json /\ r.json.embedMode = TRUE

IsErrorResponse(r) == "error" \in DOMAIN r.json

SecondaryCalls == {"extractTwitterContent", "extractInstagramContent"}

\* the Primary record holds a video item with a non-empty url
UsableVideoIn(r) ==
    \E k \in 1..Len(r.content.media) :
        r.content.media[k].type = "video" /\ r.content.media[k].url # ""

\* the Primary Extractor did not succeed: it threw, or its record has no
\* usable video (empty media, image only)
PrimaryFailed == result = NoResult \/ ~UsableVideoIn(result)

\* C1: when the Primary Extractor does not succeed and the platform is twitter
\* or instagram, the platform's Secondary Extractor has been attempted before an
\* EmbedFallback record is produced.
C1_SecondaryBeforeEmbed ==
    \A k \in 1..Len(responses) :
        (IsEmbedRecord(responses[k]) /\ platform \in {"twitter", "instagram"})
            => \E j \in 1..Len(calls) : calls[j] \in SecondaryCalls

\* C2: the response is the Primary Extractor's record if and only if that
\* record holds a video item with a non-empty url; after a Primary error, an
\* empty media list or an image-only list the request never ends with it.
C2_PrimaryRecordIffVideo ==
    (pc = "done" /\ calls # << >>)
        => /\ Len(responses) >= 1
           /\ (result # NoResult /\ responses[1] = Response(200, result))
                 <=> (result # NoResult /\ UsableVideoIn(result))
           /\ PrimaryFailed =>
                 \A k \in 1..Len(responses) : "content" \notin DOMAIN responses[k].json

C2_Witness ==
    /\ pc = "done"
    /\ result # NoResult
    /\ UsableVideoIn(result)
    /\ responses = <<Response(200, result)>>

\* one of the four outcomes: Primary record, embed record, fatal error
\* (a Secondary record would be the fourth; the handler has none)
IsOutcome(r) ==
    \/ r.status = 200 /\ result # NoResult /\ r.json = result
    \/ IsEmbedRecord(r)
    \/ IsErrorResponse(r) /\ r.status \in {400, 500}

\* C3: every request gets exactly one outcome: never two responses, none
\* while the handler still waits, exactly one once it has finished, and the
\* handler does finish, also when the Primary Extractor throws or times out.
C3_ExactlyOneOutcome ==
    /\ [](Len(responses) <= 1)
    /\ [](pc = "primary" => responses = << >>)
    /\ [](pc = "done" => (Len(responses) = 1 /\ IsOutcome(responses[1])))
    /\ (pc = "primary" ~> pc = "done")

C3_Witness ==
    /\ pc = "done"
    /\ calls = <<"extractWithYtdlp">>
    /\ result = NoResult
    /\ Len(responses) = 1

\* the url passed URL validation and platform detection
UrlAccepted ==
    /\ body.url.t = "string"
    /\ UrlParses(body.url.s)
    /\ detectPlatform(body.url.s) # Null

\* C5: the only failures returned to the caller are the invalid-URL error and
\* the unsupported-platform error; a request whose url passed validation and
\* detection ends with a record, never with 'Extraction failed'.
C5_OnlyUrlErrorsSurface ==
    \A k \in 1..Len(responses) :
        /\ IsErrorResponse(responses[k])
              => responses[k] \in {UrlRequired, InvalidUrl, UnsupportedPlatform}
        /\ UrlAccepted => ~IsErrorResponse(responses[k])

\* C6: a syntactically valid url the detector does not know ends the request
\* with the unsupported-platform error, a missing or unparsable url with an
\* invalid-URL error, and in both cases no extractor is invoked at any point
\* of the request; https://example.com/post/1 is such an unsupported url.
C6_NoExtractorForRejectedUrl ==
    pc # "idle" =>
        /\ (body.url.t = "string" /\ UrlParses(body.url.s)
               /\ detectPlatform(body.url.s) = Null)
              => (pc = "done" /\ responses = <<UnsupportedPlatform>> /\ calls = << >>)
        /\ body.url = JString(OtherUrl)
              => (pc = "done" /\ responses = <<UnsupportedPlatform>> /\ calls = << >>)
        /\ (~Truthy(body.url) \/ ~UrlParses(StringOf(body.url)))
              => (/\ pc = "done"
                  /\ responses \in {<<UrlRequired>>, <<InvalidUrl>>}
                  /\ calls = << >>)

C6_Witness ==
    /\ pc = "done"
    /\ body.url = JString(OtherUrl)
    /\ responses = <<UnsupportedPlatform>>
    /\ calls = << >>

\* C7: for twitter, instagram and tiktok alike, when the Primary Extractor
\* fails and no Secondary succeeds, the response is a record with embedMode
\* true, a non-empty embedUrl, the platform and the original url, and never
\* an error response.
C7_EmbedAfterFailure ==
    (pc = "done" /\ UrlAccepted /\ PrimaryFailed
        /\ ~\E j \in 1..Len(calls) : calls[j] \in SecondaryCalls)
        => /\ Len(responses) = 1
           /\ ~IsErrorResponse(responses[1])
           /\ IsEmbedRecord(responses[1])
           /\ responses[1].json.embedUrl # ""
           /\ responses[1].json.platform = detectPlatform(body.url.s)
           /\ responses[1].json.platform \in {"twitter", "instagram", "tiktok"}
           /\ responses[1].json.originalUrl = body.url.s

C7_Witness ==
    /\ pc = "done"
    /\ platform = "tiktok"
    /\ result = NoResult
    /\ Len(responses) = 1
    /\ IsEmbedRecord(responses[1])

(***************************************************************************)
(* Properties of the format selection (specification Spec: info is the     *)
(* output of the yt-dlp run, result the record built from it).             *)
(***************************************************************************)
Reorderings(seq) ==
    {[k \in 1..Len(seq) |-> seq[f[k]]] :
        f \in {g \in [1..Len(seq) -> 1..Len(seq)] :
                  \A a, b \in 1..Len(seq) : g[a] = g[b] => a = b}}

\* C9: the chosen videoUrl is the same for every permutation of the formats
\* list, also when entries of equal height carry different urls.
C9_SelectionIgnoresOrder ==
    \A fs \in Reorderings(info.formats) :
        SelectVideoUrl([info EXCEPT !.formats = fs]) = SelectVideoUrl(info)

\* the videoUrl behind the Primary record: its video item's url, "" if none
ChosenVideoUrl ==
    IF UsableVideoIn(result) THEN result.content.media[1].url ELSE ""

NotDash(f) == ~includes(f.format_id, "dash")

\* C10 as stated: an entry with a url, a height, an mp4 video extension and a
\* format id that does not indicate DASH makes the selection a non-DASH entry,
\* and the example list selects 'a'.
C10_AsStated ==
    (pc = "done" /\ result # NoResult) =>
        /\ (\E k \in 1..Len(info.formats) :
               LET f == info.formats[k]
               IN  f.url # "" /\ f.height # 0 /\ f.video_ext = "mp4" /\ NotDash(f))
              => \E k \in 1..Len(info.formats) :
                    NotDash(info.formats[k]) /\ info.formats[k].url = ChosenVideoUrl
        /\ info.formats = <<Bare720, Bare1080Dash>> => ChosenVideoUrl = "a"

\* an entry the code takes for a progressive mp4 video: url, width and
\* height, a video track, mp4, no 'dash' in its format id
Qualifying(f) ==
    /\ f.url # "" /\ f.width # 0 /\ f.height # 0
    /\ f.vcodec # "none" /\ f.video_ext # "none"
    /\ (f.ext = "mp4" \/ f.video_ext = "mp4")
    /\ NotDash(f)

\* C10 as amended: when the formats list holds an entry with a url, a width
\* and a height, a video track, an mp4 extension and a format id without
\* 'dash', the selection is such an entry, of the largest height among them,
\* even if a DASH entry is higher; with widths added, the example selects 'a'.
C10_ProgressivePreferred ==
    (pc = "done" /\ result # NoResult) =>
        /\ (\E k \in 1..Len(info.formats) : Qualifying(info.formats[k]))
              => \E k \in 1..Len(info.formats) :
                    /\ Qualifying(info.formats[k])
                    /\ info.formats[k].url = ChosenVideoUrl
                    /\ \A j \in 1..Len(info.formats) :
                          Qualifying(info.formats[j])
                             => info.formats[j].height <= info.formats[k].height
        /\ info.formats = <<Prog720, Dash1080>> => ChosenVideoUrl = "a"

C10_Witness ==
    /\ pc = "done"
    /\ info.formats = <<Prog720, Dash1080>>
    /\ ChosenVideoUrl = "a"

(***************************************************************************)
(* Properties of the merge of DOM data and captured evidence               *)
(* (specification SpecSecondary).                                          *)
(***************************************************************************)
IsPlaceholder(m) == m.type = "video" /\ m.url = ""

\* C4: a record a Secondary Extractor returns holds no video item with an
\* empty url, also when no video url was captured at all.
C4_NoPlaceholderReturned ==
    secPc = "returned" => \A k \in 1..Len(secData) : ~IsPlaceholder(secData[k])

\* the platform's quality tokens for video evidence (lib/twitter line 340;
\* lib/instagram has none)
HasQualityToken(url) ==
    secPlatform = "twitter" /\ (includes(url, "720x") \/ includes(url, "1280x"))

\* C8: a placeholder of the DOM pass, with evidence that carries no quality
\* token, is filled with the most recently observed entry and keeps its
\* thumbnail; {video, '', 't'} with ['v1.mp4', 'v2.mp4'] gives
\* {video, 'v2.mp4', 't'}.
C8_MostRecentEvidenceWins ==
    (secPc = "returned" /\ Len(capturedVideos) > 0
        /\ \A j \in 1..Len(capturedVideos) : ~HasQualityToken(capturedVideos[j]))
        => \A k \in 1..Len(secDom) :
              (IsPlaceholder(secDom[k]) /\ \A j \in 1..(k - 1) : ~isVideo(secDom[j]))
                 => /\ Len(secData) = Len(secDom)
                    /\ secData[k] = [secDom[k] EXCEPT
                                        !.url = capturedVideos[Len(capturedVideos)]]

(***************************************************************************)
(* Properties of the platform detection (specification Spec: the handler   *)
(* applies detectPlatform to the url of the request).                      *)
(***************************************************************************)
\* the host of an absolute url: the text between "://" and the next "/",
\* "?" or "#", in lower case
HostOf(url) ==
    LET i    == indexOf(url, "://")
        rest == SubSeq(url, i + 3, Len(url))
        ends == {k \in 1..Len(rest) : CharAt(rest, k) \in {"/", "?", "#"}}
    IN  IF i = 0 THEN ""
        ELSE toLowerCase(SubSeq(rest, 1, IF ends = {} THEN Len(rest)
                                         ELSE Leftmost(ends) - 1))

SupportedDomains == {"twitter.com", "x.com", "instagram.com", "instagr.am", "tiktok.com"}

\* the host is the domain d or one of its subdomains
OnDomain(host, d) ==
    \/ host = d
    \/ Len(host) > Len(d) + 1
          /\ SubSeq(host, Len(host) - Len(d), Len(host)) = "." \o d

OnSupportedDomain(url) == \E d \in SupportedDomains : OnDomain(HostOf(url), d)

\* C11: a url whose host is not a supported platform's domain is classified
\* as null, never as twitter, instagram or tiktok; so are
\* https://example.com/?u=https://x.com/user/status/123 and a url whose host
\* merely ends in the letters x.com.
C11_ClassifiesByOwnDomain ==
    (pc # "idle" /\ body.url.t = "string" /\ UrlParses(body.url.s)
        /\ ~OnSupportedDomain(body.url.s))
        => /\ detectPlatform(body.url.s) = Null
           /\ platform = Null

(***************************************************************************)
(* Properties of the captured evidence (specification SpecSecondary).      *)
(***************************************************************************)
NoUrlTwice(seq) == \A i, j \in 1..Len(seq) : seq[i] = seq[j] => i = j

\* C12: at every point of an attempt, whatever requests and responses were
\* observed and however often the same url was observed, neither evidence
\* list (videos, images) holds a url twice: each url stands once, at the place
\* of its first observation.
C12_EvidenceDeduplicated ==
    secPc # "idle" => NoUrlTwice(capturedVideos) /\ NoUrlTwice(capturedImages)

(***************************************************************************)
(* Properties of the shared browser and of the pages (specification        *)
(* SpecBrowser).                                                           *)
(***************************************************************************)
Connected == {b \in 1..Len(browsers) : isConnected(b)}

\* the calls whose page is open on a browser that is alive
WithLivePage == {a \in Slots : attempts[a].page = "open" /\ isConnected(attempts[a].browser)}

\* C13: under any interleaving of concurrent attempts, also of two that both
\* start while no browser runs, at most one browser process is alive (a
\* launch happens only when the existing process is no longer connected) and
\* all attempts have their pages on that same process.
C13_OneSharedBrowser ==
    /\ Cardinality(Connected) <= 1
    /\ \A a, c \in WithLivePage : attempts[a].browser = attempts[c].browser

\* C14: a page an attempt opened is closed exactly once before the attempt
\* returns or throws, on every exit path (listener setup failure, navigation
\* timeout, exception of the DOM pass, normal return): page.close() is not
\* called while the try block runs, has been called once when the finally
\* block awaits it, and no finished attempt leaves its page open; a browser
\* process is closed by the exit handler of the process only, never by an
\* attempt.
C14_PageClosedOnce ==
    /\ \A a \in Slots :
          LET at == attempts[a]
          IN  /\ at.closes <= 1
              /\ at.pc \in {"setup", "loading"} => (at.page = "open" /\ at.closes = 0)
              /\ at.pc = "closing" => (at.page = "open" /\ at.closes = 1)
              /\ at.pc \in {"returned", "thrown"} =>
                    \/ at.page = "none" /\ at.closes = 0
                    \/ at.page = "closed" /\ at.closes = 1
              /\ at.pc = "returned" => at.page = "closed"
    /\ \A b \in 1..Len(browsers) : browsers[b].closed => exited

\* one attempt threw and one returned, each with its page closed once
C14_Witness ==
    \E a, c \in Slots :
        /\ attempts[a].pc = "thrown" /\ attempts[a].exit = "throw"
        /\ attempts[a].page = "closed" /\ attempts[a].closes = 1
        /\ attempts[c].pc = "returned"
        /\ attempts[c].page = "closed" /\ attempts[c].closes = 1
        /\ Connected # {}

(***************************************************************************)
(* Properties of the evidence of concurrent attempts (specification        *)
(* SpecPages).                                                             *)
(***************************************************************************)
\* the urls an item of data.content.media carries
ItemUrls(m) == {m.url} \cup (IF "thumbnail" \in DOMAIN m THEN {m.thumbnail} ELSE {})

\* C15: with several attempts running on the shared browser, the evidence of
\* an attempt holds only urls observed on that attempt's own page, and so
\* does its result (apart from what the DOM pass of its own page gave); an
\* attempt starts with empty evidence, nothing survives from an earlier one.
C15_EvidenceIsOwn ==
    \A a \in Slots :
        LET at == attempts[a]
        IN  /\ \A k \in 1..Len(at.videos) : at.videos[k] \in at.observed
            /\ \A k \in 1..Len(at.images) : at.images[k] \in at.observed
            /\ at.pc \in {"launching", "opening", "setup"} =>
                  (at.videos = << >> /\ at.images = << >> /\ at.data = << >>)
            /\ at.pc = "closing" =>
                  \A k \in 1..Len(at.data) :
                      ItemUrls(at.data[k]) \subseteq
                          at.observed \cup {""}
                             \cup UNION {ItemUrls(at.dom[j]) : j \in 1..Len(at.dom)}

\* two attempts of one module load their pages at the same time; one has
\* captured a url the page of the other has not shown
C15_Witness ==
    \E a, c \in Slots :
        /\ a # c
        /\ attempts[a].pc = "loading" /\ attempts[c].pc = "loading"
        /\ attempts[a].module = attempts[c].module
        /\ attempts[a].browser = attempts[c].browser
        /\ attempts[a].videos # << >>
        /\ attempts[c].observed = {}

(***************************************************************************)
(* Properties of the fallbacks of parseYtdlpInfo (specification Spec).     *)
(***************************************************************************)
\* a format entry that is a video: url, width and height, a video track
VideoEntry(f) ==
    /\ f.url # "" /\ f.width # 0 /\ f.height # 0
    /\ f.vcodec # "none" /\ f.video_ext # "none"

NoVideoEntry == \A k \in 1..Len(info.formats) : ~VideoEntry(info.formats[k])

\* C16: when no format entry is a video format, the tool's top-level url is
\* the video url; when that is absent too and there is a thumbnail, the media
\* list is exactly one image item with the thumbnail as url; with neither the
\* list is empty.  In every case the list has at most one item and holds no
\* video item with an empty url.
C16_FallbackChain ==
    (pc = "done" /\ result # NoResult) =>
        LET media == result.content.media
        IN  /\ Len(media) <= 1
            /\ \A k \in 1..Len(media) : ~(media[k].type = "video" /\ media[k].url = "")
            /\ NoVideoEntry =>
                  /\ info.url # "" =>
                        media = << [type |-> "video", url |-> info.url,
                                    thumbnail |-> info.thumbnail] >>
                  /\ (info.url = "" /\ info.thumbnail # "") =>
                        media = << [type |-> "image", url |-> info.thumbnail] >>
                  /\ (info.url = "" /\ info.thumbnail = "") => media = << >>

\* formats without a video entry, no top-level url, a thumbnail
C16_Witness ==
    /\ pc = "done"
    /\ result # NoResult
    /\ info.formats # << >>
    /\ NoVideoEntry
    /\ info.url = ""
    /\ result.content.media = << [type |-> "image", url |-> "t"] >>

(***************************************************************************)
(* Properties of the embed address (specification Spec: the handler builds *)
(* it for the url of the request when the yt-dlp tier gave no video).      *)
(***************************************************************************)
\* what precedes the host of an absolute url (the scheme and "://") and what
\* follows it
BeforeHost(url) == SubSeq(url, 1, indexOf(url, "://") + 2)
AfterHost(url) == SubSeq(url, indexOf(url, "://") + 3 + Len(HostOf(url)), Len(url))

\* C17: for every url the detector classifies, the embed address is built
\* without failure and is: for twitter the url moved to the primary domain
\* twitter.com with the rest of it unchanged; for instagram the embed-widget
\* address of the shortcode the detector's extractShortcode yields for the
\* url; for any other shape the url itself.
C17_EmbedUrlCanonical ==
    \A k \in 1..Len(responses) :
        IsEmbedRecord(responses[k]) =>
            LET url   == body.url.s
                embed == responses[k].json.embedUrl
            IN  /\ platform = "twitter" =>
                      /\ OnDomain(HostOf(embed), "twitter.com")
                      /\ BeforeHost(embed) = BeforeHost(url)
                      /\ AfterHost(embed) = AfterHost(url)
                /\ platform = "instagram" =>
                      embed = "https://www.instagram.com/p/" \o extractShortcode(url)
                                 \o "/embed/"
                /\ platform \notin {"twitter", "instagram"} => embed = url

(***************************************************************************)
(* Properties of the merge for complete DOM data and for image evidence    *)
(* (specification SpecSecondary).                                          *)
(***************************************************************************)
\* C18: in both Secondary Extractors, a video item the DOM pass produced with
\* a non-empty url is in the returned media at its place with the same url
\* and thumbnail, whatever videos and images were captured.
C18_DomVideoKept ==
    secPc = "returned" =>
        \A k \in 1..Len(secDom) :
            (isVideo(secDom[k]) /\ secDom[k].url # "")
                => (k <= Len(secData) /\ secData[k] = secDom[k])

\* the DOM pass gave a video with its url while other video urls were captured
C18_Witness ==
    /\ secPc = "returned"
    /\ Len(capturedVideos) > 0
    /\ \E k \in 1..Len(secDom) :
          /\ isVideo(secDom[k]) /\ secDom[k].url # ""
          /\ "thumbnail" \in DOMAIN secDom[k] /\ secDom[k].thumbnail # ""
          /\ \A j \in 1..Len(capturedVideos) : capturedVideos[j] # secDom[k].url
          /\ secData[k] = secDom[k]

\* the resolution tokens of image evidence (lib/instagram line 311)
HasResolutionToken(url) == includes(url, "1080") \/ includes(url, "1440")

\* C19: in the Instagram Secondary Extractor, when the DOM pass produced no
\* media and the evidence holds at least one image and no video, the returned
\* media is exactly one image item; its url is an evidence image that carries
\* '1080' or '1440' if one does, otherwise the most recently observed image.
\* When the DOM pass produced media, no captured image is added as an item.
C19_BestImageFromEvidence ==
    (secPc = "returned" /\ secPlatform = "instagram") =>
        /\ (secDom = << >> /\ Len(capturedImages) >= 1 /\ capturedVideos = << >>) =>
              /\ Len(secData) = 1
              /\ DOMAIN secData[1] = {"type", "url"}
              /\ secData[1].type = "image"
              /\ \E k \in 1..Len(capturedImages) : secData[1].url = capturedImages[k]
              /\ IF \E k \in 1..Len(capturedImages) : HasResolutionToken(capturedImages[k])
                 THEN HasResolutionToken(secData[1].url)
                 ELSE secData[1].url = capturedImages[Len(capturedImages)]
        /\ secDom # << >> =>
              \A k \in 1..Len(secData) :
                  secData[k].type = "image" => \E j \in 1..Len(secDom) : secDom[j] = secData[k]

\* nothing on the page, two images without a token captured: the later one
C19_Witness ==
    /\ secPc = "returned" /\ secPlatform = "instagram"
    /\ secDom = << >>
    /\ capturedVideos = << >>
    /\ Len(capturedImages) = 2
    /\ \A k \in 1..2 : ~HasResolutionToken(capturedImages[k])
    /\ secData = << [type |-> "image", url |-> capturedImages[2]] >>

(***************************************************************************)
(* Properties of the platform of a Primary record (specification Spec).    *)
(***************************************************************************)
\* C20: for every url the handler accepted, the platform field of a record
\* returned from the Primary tier is the platform the handler's detector gave
\* the url; it is never another platform and never 'unknown'.
C20_PrimaryPlatformAgrees ==
    (pc = "done" /\ result # NoResult /\ responses = <<Response(200, result)>>)
        => /\ responses[1].json.platform = platform
           /\ responses[1].json.platform = detectPlatform(body.url.s)
           /\ responses[1].json.platform # "unknown"

====
